---- MODULE Spec2Model ----
(***************************************************************************)
(* Model of utilities_custom_logger/custom_logger.py:                      *)
(*   - AlignedFileFormatter.format        (pure function, SpecFmt)         *)
(*   - _install_exception_logging and the hooks it installs                *)
(*       sequential calls (Spec), interleaved calls of threads (SpecConc)  *)
(*   - setup_logger and the handler set of the named logger (Spec)         *)
(* Strings are sequences of one-character strings.                         *)
(***************************************************************************)
EXTENDS Integers, Sequences, FiniteSets, TLC

VARIABLES
    \* ---- formatter (SpecFmt) ----
    record,         \* the logging.LogRecord handed to format
    formatter,      \* the AlignedFileFormatter: message_col, source_col
    out,            \* the string format returned
    fmtDone         \* whether format has run

fmtVars == <<record, formatter, out, fmtDone>>

VARIABLES
    \* ---- module globals of custom_logger.py ----
    EXC_HOOKS_INSTALLED,        \* _EXC_HOOKS_INSTALLED
    ORIG_SYS_EXCEPTHOOK,        \* _ORIG_SYS_EXCEPTHOOK
    ORIG_THREADING_EXCEPTHOOK,  \* _ORIG_THREADING_EXCEPTHOOK
    ORIG_ASYNCIO_HANDLER,       \* _ORIG_ASYNCIO_HANDLER
    \* ---- process-global hook slots ----
    sys_excepthook,             \* sys.excepthook
    threading_excepthook,       \* threading.excepthook
    loopState,                  \* per event loop: "absent", "open", "closed"
    loopHandler,                \* per event loop: loop.get_exception_handler()
    curLoop,                    \* the current event loop, 0 if none is set
    nHooks,                     \* closures (_sys_hook, ...) created so far
    \* ---- installer calls in progress (SpecConc) ----
    pc,                         \* per thread: the line it is about to execute
    locals,                     \* per thread: the closures its call defined,
                                \*   the loop it got, whether it hooked it
    \* ---- the logger named "config_loader_logger" ----
    loggerId,                   \* its identity in logging's registry, 0 if absent
    handlers,                   \* logger.handlers
    loggerLevel,                \* logger.level
    propagate,                  \* logger.propagate
    \* ---- what the last operations did ----
    returnedIds,                \* the logger objects setup_logger returned
    lastSetup,                  \* arguments of the last setup_logger call
    lastEmit,                   \* sinks the last logged message was written to
    lastExc,                    \* what the last delivered exception caused
    skipped,                    \* the installing call skipped the loop channel
    bornAfter,                  \* loops created after the installation
    setupCalls,                 \* setup_logger calls so far (0, 1, 2 for several)
    installCalls                \* installer calls so far (0, 1, 2 for several)

hookVars == <<EXC_HOOKS_INSTALLED, ORIG_SYS_EXCEPTHOOK, ORIG_THREADING_EXCEPTHOOK,
              ORIG_ASYNCIO_HANDLER, sys_excepthook, threading_excepthook,
              loopHandler, nHooks, skipped>>
loopVars == <<loopState, curLoop, bornAfter>>
threadVars == <<pc, locals>>
loggerVars == <<loggerId, handlers, loggerLevel, propagate, returnedIds,
                lastSetup>>
obsVars == <<lastEmit, lastExc>>
countVars == <<setupCalls, installCalls>>

vars == <<fmtVars, hookVars, loopVars, threadVars, loggerVars, obsVars,
         countVars>>

\* ------------------------------------------------------------------------
\* Bounds of the model
\* ------------------------------------------------------------------------
MaxMsgLen == 3      \* longest message handed to format
MaxLoops == 2       \* event loops created in a run
MaxCalls == 2       \* installer calls that get past the guard
NumThreads == 2     \* threads calling the installer concurrently
MaxDepth == 3       \* nested hook invocations before RecursionError

\* ------------------------------------------------------------------------
\* Characters and strings
\* ------------------------------------------------------------------------
LF == "\n"
CR == "\r"
FF == "\f"
SP == " "

Max(a, b) == IF a >= b THEN a ELSE b

\* a count of calls: none, one, several
Counted(n) == IF n < 2 THEN n + 1 ELSE n

\* ' ' * n  (n <= 0 gives the empty string, as in Python)
Spaces(n) == [i \in 1..Max(n, 0) |-> SP]

Digit(d) == CASE d = 0 -> "0" [] d = 1 -> "1" [] d = 2 -> "2" [] d = 3 -> "3"
              [] d = 4 -> "4" [] d = 5 -> "5" [] d = 6 -> "6" [] d = 7 -> "7"
              [] d = 8 -> "8" [] d = 9 -> "9"

\* str(n) for a natural number
RECURSIVE Str(_)
Str(n) == IF n < 10 THEN <<Digit(n)>> ELSE Str(n \div 10) \o <<Digit(n % 10)>>

\* two-digit field of strftime (%S)
TwoDigits(n) == <<Digit((n \div 10) % 10), Digit(n % 10)>>

\* self.formatTime(record, "%Y-%m-%d %H:%M:%S") for a record created within
\* the first minute of the epoch (UTC)
formatTime(created) ==
    <<"1","9","7","0","-","0","1","-","0","1",SP,"0","0",":","0","0",":">>
        \o TwoDigits(created)

\* the characters str.splitlines treats as line boundaries (of those the
\* model's messages are drawn from); "\r\n" is one boundary
Breaks == {LF, CR, FF}

\* index of the first line boundary of s at or after j, Len(s)+1 if none
RECURSIVE FindBreak(_, _)
FindBreak(s, j) ==
    IF j > Len(s) \/ s[j] \in Breaks THEN j ELSE FindBreak(s, j + 1)

\* str.splitlines(): no empty last line after a trailing boundary
RECURSIVE SplitFrom(_, _)
SplitFrom(s, j) ==
    IF j > Len(s) THEN <<>>
    ELSE LET eol == FindBreak(s, j)
             nxt == IF eol > Len(s) THEN eol
                    ELSE IF s[eol] = CR /\ eol + 1 <= Len(s) /\ s[eol + 1] = LF
                         THEN eol + 2
                         ELSE eol + 1
         IN  <<SubSeq(s, j, eol - 1)>> \o SplitFrom(s, nxt)

splitlines(s) == SplitFrom(s, 1)

\* the physical lines of a text: the pieces between its "\n" characters
LFPositions(s) == {i \in 1..Len(s) : s[i] = LF}
NthLF(s, k) ==
    CHOOSE i \in LFPositions(s) :
        Cardinality({j \in LFPositions(s) : j <= i}) = k
PhysicalLines(s) ==
    LET n == Cardinality(LFPositions(s))
    IN  [k \in 1..(n + 1) |->
            SubSeq(s, IF k = 1 THEN 1 ELSE NthLF(s, k - 1) + 1,
                      IF k = n + 1 THEN Len(s) ELSE NthLF(s, k) - 1)]

\* "\n".join(lines)
RECURSIVE Join(_)
Join(lines) ==
    IF Len(lines) = 0 THEN <<>>
    ELSE IF Len(lines) = 1 THEN lines[1]
    ELSE lines[1] \o <<LF>> \o Join(Tail(lines))

\* ------------------------------------------------------------------------
\* AlignedFileFormatter.format
\* ------------------------------------------------------------------------
\* src = f"{record.filename}:{record.lineno}"
SrcOf(rec) == rec.filename \o <<":">> \o Str(rec.lineno)

\* prefix = f"{ts} [{lvl}] "
PrefixOf(rec) ==
    formatTime(rec.created) \o <<SP, "[">> \o rec.levelname \o <<"]", SP>>

\* faulty variant: the message cut at every "\n", as str.split("\n") does
MsgLines_split(rec) == PhysicalLines(rec.msg)

\* msg_lines = (record.getMessage() or "").splitlines() or [""]
MsgLines(rec) ==
    LET ls == splitlines(rec.msg) IN IF Len(ls) = 0 THEN << <<>> >> ELSE ls

\* left_first = f"{prefix}{' ' * pad_to_msg}{msg_lines[0]}"
LeftFirst(f, rec) ==
    LET prefix == PrefixOf(rec)
        pad_to_msg == Max(1, f.message_col - Len(prefix))
    IN  prefix \o Spaces(pad_to_msg) \o MsgLines(rec)[1]

\* pad_to_src = max(1, self.source_col - len(left_first) - len(src))
PadToSrc(f, rec) ==
    Max(1, f.source_col - Len(LeftFirst(f, rec)) - Len(SrcOf(rec)))

\* first_line = f"{left_first}{' ' * pad_to_src}{src}"
FirstLine(f, rec) ==
    LeftFirst(f, rec) \o Spaces(PadToSrc(f, rec)) \o SrcOf(rec)

\* cont_lines = [f"{cont_prefix}{line}" for line in msg_lines[1:]]
ContLines(f, rec) ==
    LET ml == MsgLines(rec)
    IN  [i \in 1..(Len(ml) - 1) |-> Spaces(f.message_col) \o ml[i + 1]]

\* return "\n".join([first_line] + cont_lines)
format(f, rec) == Join(<<FirstLine(f, rec)>> \o ContLines(f, rec))

\* ------------------------------------------------------------------------
\* Inputs of the formatter
\* ------------------------------------------------------------------------
MsgChars == {"a", SP, LF, CR, FF}

RECURSIVE StringsUpTo(_)
StringsUpTo(n) ==
    IF n = 0 THEN {<<>>}
    ELSE LET shorter == StringsUpTo(n - 1)
         IN  shorter \cup {Append(s, c) : s \in {t \in shorter : Len(t) = n - 1},
                                          c \in MsgChars}

Messages == StringsUpTo(MaxMsgLen)

\* the standard severity names (logging.getLevelName)
LevelNames == { <<"D","E","B","U","G">>, <<"I","N","F","O">>,
                <<"W","A","R","N","I","N","G">>, <<"E","R","R","O","R">>,
                <<"C","R","I","T","I","C","A","L">> }

FileNames == { <<"a","p","p",".","p","y">> }
LineNos == {7, 10}
CreatedTimes == {59}

\* message_col: the default (32) and one the prefix already exceeds;
\* source_col: one the first line overruns, the spec's example, the default
MessageCols == {20, 32}
SourceCols == {40, 60, 220}

Records == [created : CreatedTimes, levelname : LevelNames, msg : Messages,
            filename : FileNames, lineno : LineNos]

Formatters == [message_col : MessageCols, source_col : SourceCols]

\* ------------------------------------------------------------------------
\* Hook values, exceptions, event loops
\* ------------------------------------------------------------------------
\* a callable in a hook slot: the handler in place before this module touched
\* the slot, a handler the application set on a loop, a closure defined by the
\* n-th installing call (_sys_hook, _thread_hook, _asyncio_handler), or None
OrigH == <<"orig", 0>>
UserH == <<"user", 0>>
NoneH == <<"None", 0>>
Wrapper(n) == <<"wrapper", n>>
IsWrapper(h) == h[1] = "wrapper"

Threads == 1..NumThreads
Loops == 1..MaxLoops

\* exception classes and their base class
ExcTypes == {"KeyboardInterrupt", "SubInterrupt", "ValueError"}
BaseOf(t) == CASE t = "SubInterrupt" -> "KeyboardInterrupt"
               [] t = "KeyboardInterrupt" -> "BaseException"
               [] t = "ValueError" -> "Exception"
               [] t = "Exception" -> "BaseException"
               [] OTHER -> "object"

RECURSIVE issubclass(_, _)
issubclass(t, c) ==
    IF t = c THEN TRUE ELSE IF t = "object" THEN FALSE ELSE issubclass(BaseOf(t), c)

\* (exc_type, exc, tb) triples handed to a hook
Excs == [exc_type : ExcTypes, exc_value : {"e1", "e2"}]

\* args.thread of threading.ExceptHookArgs: a thread, or None
ThreadArgs == {"Thread-1", "NoThread"}

\* getattr(args.thread, "name", "unknown")
ThreadNameOf(th) == IF th = "NoThread" THEN "unknown" ELSE th

\* ------------------------------------------------------------------------
\* The logger and its handlers
\* ------------------------------------------------------------------------
NoPath == "None"
RawPaths == {"A", "./A", "B"}

\* Path(p).resolve(): two spellings of one file resolve to the same path
Resolve(p) == CASE p = "./A" -> "A" [] OTHER -> p

\* level.upper()
Upper(l) == CASE l = "info" -> "INFO" [] l = "error" -> "ERROR" [] OTHER -> l

\* logging's numeric value of a level name
LevelNo(name) == CASE name = "DEBUG" -> 10 [] name = "INFO" -> 20
                   [] name = "WARNING" -> 30 [] name = "ERROR" -> 40
                   [] name = "CRITICAL" -> 50

\* RichHandler(...) is created without a level: NOTSET
ConsoleHandler == [kind |-> "console", sink |-> "stdout", level |-> 0]

\* logging.FileHandler(log_file, ...); file_handler.setLevel(level.upper())
FileHandler(log_file, level) ==
    [kind |-> "file", sink |-> Resolve(log_file), level |-> LevelNo(Upper(level))]

\* faulty variant: the error file's handler given the general threshold
ErrHandlerLevel_general(level) == LevelNo(Upper(level))

\* err_handler.setLevel(logging.ERROR)
ErrHandlerLevel(level) == LevelNo("ERROR")

ErrHandler(error_log_file, level) ==
    [kind |-> "error_file", sink |-> Resolve(error_log_file),
     level |-> ErrHandlerLevel(level)]

\* faulty variant: the two paths compared as given, unresolved
ErrPathDiffers_raw(log_file, error_log_file) ==
    log_file = NoPath \/ error_log_file # log_file

\* if std_path is None or err_path != std_path
ErrPathDiffers(log_file, error_log_file) ==
    LET err_path == Resolve(error_log_file)
    IN  log_file = NoPath \/ err_path # Resolve(log_file)

\* faulty variant: the handlers of an earlier call never cleared
hasHandlers_never(rootHasHandlers) == FALSE

\* logger.hasHandlers(): own handlers, or an ancestor's while propagating
\* (rootHasHandlers: whether an ancestor logger has handlers at that time)
hasHandlers(rootHasHandlers) ==
    Len(handlers) > 0 \/ (propagate /\ rootHasHandlers)

\* logging.getLogger("config_loader_logger"): the registry's object for the
\* name, created on first use
getLogger == IF loggerId = 0 THEN Cardinality(returnedIds) + 1 ELSE loggerId

\* Logger.log: isEnabledFor, then every handler whose level admits the record
RECURSIVE SinksOf(_, _)
SinksOf(hs, levelno) ==
    IF Len(hs) = 0 THEN <<>>
    ELSE (IF levelno >= hs[1].level THEN <<hs[1].sink>> ELSE <<>>)
            \o SinksOf(Tail(hs), levelno)

Emit(levelno) ==
    [levelno |-> levelno,
     sinks |-> IF levelno >= loggerLevel THEN SinksOf(handlers, levelno) ELSE <<>>]

NoEmit == [levelno |-> 0, sinks |-> <<>>]

\* ------------------------------------------------------------------------
\* The hooks installed by _install_exception_logging
\* ------------------------------------------------------------------------
NoExc == [exc_type |-> "none", exc_value |-> "none"]
NoRun == [chan |-> "none", exc |-> NoExc, thread |-> "none",
          entries |-> <<>>, origArgs |-> <<>>, failed |-> "no"]

Result(entries, origArgs, failed) ==
    [entries |-> entries, origArgs |-> origArgs, failed |-> failed]

\* faulty variant: _sys_hook without its KeyboardInterrupt test
SysHookEntries_always(exc) ==
    << [text |-> "Uncaught exception", thread |-> "none"] >>

\* _sys_hook: what it hands to logger.error before delegating
SysHookEntries(exc) ==
    IF issubclass(exc.exc_type, "KeyboardInterrupt") THEN <<>>
    ELSE << [text |-> "Uncaught exception", thread |-> "none"] >>

\* calling the callable h as sys.excepthook(exc_type, exc, tb); _sys_hook
\* delegates to whatever the global _ORIG_SYS_EXCEPTHOOK holds at that time
RECURSIVE RunSys(_, _, _)
RunSys(h, exc, fuel) ==
    IF h = OrigH THEN Result(<<>>, <<exc>>, "no")
    ELSE IF ~IsWrapper(h) THEN Result(<<>>, <<>>, "TypeError")
    ELSE IF fuel = 0 THEN Result(<<>>, <<>>, "RecursionError")
    ELSE LET r == RunSys(ORIG_SYS_EXCEPTHOOK, exc, fuel - 1)
         IN  Result(SysHookEntries(exc) \o r.entries, r.origArgs, r.failed)

\* _thread_hook: what it hands to logger.error
ThreadHookEntries(exc, th) ==
    << [text |-> "Uncaught thread exception", thread |-> ThreadNameOf(th)] >>

\* calling the callable h as threading.excepthook(args)
RECURSIVE RunThread(_, _, _, _)
RunThread(h, exc, th, fuel) ==
    IF h = OrigH THEN Result(<<>>, << <<exc, th>> >>, "no")
    ELSE IF ~IsWrapper(h) THEN Result(<<>>, <<>>, "TypeError")
    ELSE IF fuel = 0 THEN Result(<<>>, <<>>, "RecursionError")
    ELSE IF issubclass(exc.exc_type, "KeyboardInterrupt")
         THEN Result(<<>>, <<>>, "no")
    ELSE IF ORIG_THREADING_EXCEPTHOOK # h
         THEN LET r == RunThread(ORIG_THREADING_EXCEPTHOOK, exc, th, fuel - 1)
              IN  Result(ThreadHookEntries(exc, th) \o r.entries, r.origArgs,
                         r.failed)
    ELSE Result(ThreadHookEntries(exc, th), <<>>, "no")

\* _asyncio_handler: what it hands to logger.error
AsyncioEntries(hasExc) ==
    << [text |-> IF hasExc THEN "Unhandled asyncio exception"
                 ELSE "Unhandled asyncio error",
        thread |-> "none"] >>

\* calling the loop's exception handler h with a context; None means the
\* loop's default_exception_handler
RECURSIVE RunLoop(_, _, _)
RunLoop(h, hasExc, fuel) ==
    IF h = NoneH THEN Result(<<>>, <<"default">>, "no")
    ELSE IF h = UserH THEN Result(<<>>, <<"user">>, "no")
    ELSE IF fuel = 0 THEN Result(<<>>, <<>>, "RecursionError")
    ELSE LET r == RunLoop(ORIG_ASYNCIO_HANDLER, hasExc, fuel - 1)
         IN  Result(AsyncioEntries(hasExc) \o r.entries, r.origArgs, r.failed)

\* the sinks reached by the last logger.error call of a hook run
EmitOfRun(r) == IF Len(r.entries) = 0 THEN NoEmit ELSE Emit(LevelNo("ERROR"))

\* ------------------------------------------------------------------------
\* Initial state: the module just imported, nothing configured
\* ------------------------------------------------------------------------
InitFormatter ==
    /\ record = [created |-> 0, levelname |-> <<"I","N","F","O">>, msg |-> <<>>,
                 filename |-> <<"a","p","p",".","p","y">>, lineno |-> 7]
    /\ formatter = [message_col |-> 32, source_col |-> 220]
    /\ out = <<>>
    /\ fmtDone = FALSE

NoLocals == [hook |-> NoneH, loop |-> 0, hooked |-> FALSE]

InitProcess ==
    /\ EXC_HOOKS_INSTALLED = FALSE
    /\ ORIG_SYS_EXCEPTHOOK = NoneH
    /\ ORIG_THREADING_EXCEPTHOOK = NoneH
    /\ ORIG_ASYNCIO_HANDLER = NoneH
    /\ sys_excepthook = OrigH
    /\ threading_excepthook = OrigH
    /\ loopState = [l \in Loops |-> "absent"]
    /\ loopHandler = [l \in Loops |-> NoneH]
    /\ curLoop = 0
    /\ nHooks = 0
    /\ pc = [t \in Threads |-> "idle"]
    /\ locals = [t \in Threads |-> NoLocals]
    /\ loggerId = 0
    /\ handlers = <<>>
    /\ loggerLevel = 0
    /\ propagate = TRUE
    /\ returnedIds = {}
    /\ lastSetup = [log_file |-> NoPath, error_log_file |-> NoPath,
                    level |-> "INFO"]
    /\ lastEmit = NoEmit
    /\ lastExc = NoRun
    /\ skipped = FALSE
    /\ bornAfter = {}
    /\ setupCalls = 0
    /\ installCalls = 0

Init == InitFormatter /\ InitProcess

\* ------------------------------------------------------------------------
\* _install_exception_logging, run from its first line to its last
\* ------------------------------------------------------------------------
\* faulty variant: the installer without its guard
AlreadyInstalled_unguarded == FALSE

\* if _EXC_HOOKS_INSTALLED: return
AlreadyInstalled == EXC_HOOKS_INSTALLED

\* faulty variant: the flag set only once all three channels are hooked
FlagAfterInstall_whenComplete(loopHooked) == loopHooked

\* _EXC_HOOKS_INSTALLED = True, whether or not the loop channel was hooked
FlagAfterInstall(loopHooked) == TRUE

\* asyncio.get_event_loop(): the current loop; with none set it either makes
\* one (fresh) or raises RuntimeError (0), depending on interpreter and thread
\* a loop made next is the first one not yet made
FreshLoops == {l \in Loops : loopState[l] = "absent"
                             /\ \A k \in 1..(l - 1) : loopState[k] # "absent"}
get_event_loop(fresh) == IF curLoop # 0 THEN curLoop ELSE fresh

InstallExceptionLogging(fresh) ==
    IF AlreadyInstalled
    THEN UNCHANGED <<hookVars, loopVars>>
    ELSE LET n == nHooks + 1
             loop == get_event_loop(fresh)
             usable == loop # 0 /\ loopState[loop] # "closed"
         IN  /\ nHooks < MaxCalls
             /\ nHooks' = n
             /\ ORIG_SYS_EXCEPTHOOK' = sys_excepthook
             /\ sys_excepthook' = Wrapper(n)
             /\ ORIG_THREADING_EXCEPTHOOK' = threading_excepthook
             /\ threading_excepthook' =
                    IF threading_excepthook # NoneH THEN Wrapper(n)
                    ELSE threading_excepthook
             /\ ORIG_ASYNCIO_HANDLER' = IF usable THEN loopHandler[loop] ELSE NoneH
             /\ loopHandler' = IF usable
                               THEN [loopHandler EXCEPT ![loop] = Wrapper(n)]
                               ELSE loopHandler
             /\ loopState' = IF loop # 0 /\ curLoop = 0
                             THEN [loopState EXCEPT ![loop] = "open"]
                             ELSE loopState
             /\ curLoop' = loop
             /\ skipped' = ~usable
             /\ EXC_HOOKS_INSTALLED' = FlagAfterInstall(usable)
             /\ UNCHANGED bornAfter

\* a caller installing the hooks on the logger setup_logger gave it
InstallDirect(fresh) ==
    /\ loggerId # 0
    /\ InstallExceptionLogging(fresh)
    /\ installCalls' = Counted(installCalls)
    /\ lastEmit' = NoEmit
    /\ lastExc' = NoRun
    /\ UNCHANGED <<setupCalls, fmtVars, threadVars, loggerVars>>

\* ------------------------------------------------------------------------
\* setup_logger
\* ------------------------------------------------------------------------
SetupLogger(log_file, error_log_file, level, exceptions, fresh, rootHas) ==
    LET cleared == IF hasHandlers(rootHas) THEN <<>> ELSE handlers
        general == IF log_file # NoPath
                   THEN <<FileHandler(log_file, level)>> ELSE <<>>
        errors  == IF error_log_file # NoPath
                      /\ ErrPathDiffers(log_file, error_log_file)
                   THEN <<ErrHandler(error_log_file, level)>> ELSE <<>>
    IN  /\ loggerId' = getLogger
        /\ loggerLevel' = LevelNo(Upper(level))
        /\ handlers' = cleared \o <<ConsoleHandler>> \o general \o errors
        /\ propagate' = FALSE
        /\ IF exceptions
           THEN InstallExceptionLogging(fresh)
                /\ installCalls' = Counted(installCalls)
           ELSE UNCHANGED <<hookVars, loopVars, installCalls>>
        /\ setupCalls' = Counted(setupCalls)
        /\ returnedIds' = returnedIds \cup {getLogger}
        /\ lastSetup' = [log_file |-> log_file, error_log_file |-> error_log_file,
                         level |-> level]
        /\ lastEmit' = NoEmit
        /\ lastExc' = NoRun
        /\ UNCHANGED <<fmtVars, threadVars>>

\* logger.log(levelno, ...) by the application
Log(levelno) ==
    /\ loggerId # 0
    /\ lastEmit' = Emit(levelno)
    /\ lastExc' = NoRun
    /\ UNCHANGED <<countVars, fmtVars, hookVars, loopVars, threadVars, loggerVars>>

\* ------------------------------------------------------------------------
\* Uncaught exceptions reaching the hook slots
\* ------------------------------------------------------------------------
Delivered(chan, exc, th, r) ==
    /\ lastExc' = [chan |-> chan, exc |-> exc, thread |-> th,
                   entries |-> r.entries, origArgs |-> r.origArgs,
                   failed |-> r.failed]
    /\ lastEmit' = EmitOfRun(r)
    /\ UNCHANGED <<countVars, fmtVars, hookVars, loopVars, threadVars, loggerVars>>

\* the interpreter calls sys.excepthook(exc_type, exc, tb)
SysException(exc) ==
    Delivered("sys", exc, "none", RunSys(sys_excepthook, exc, MaxDepth))

\* threading calls threading.excepthook(args)
ThreadException(exc, th) ==
    Delivered("threading", exc, th,
              RunThread(threading_excepthook, exc, th, MaxDepth))

\* an open loop calls its exception handler with a context
LoopException(l, hasExc) ==
    /\ loopState[l] = "open"
    /\ Delivered("asyncio", NoExc, "none",
                 RunLoop(loopHandler[l], hasExc, MaxDepth))

\* ------------------------------------------------------------------------
\* Event loops made and closed by the application
\* ------------------------------------------------------------------------
\* asyncio.set_event_loop(asyncio.new_event_loop()), with or without a
\* handler of the application's own
NewLoop(l, withHandler) ==
    /\ loopState[l] = "absent"
    /\ loopState' = [loopState EXCEPT ![l] = "open"]
    /\ loopHandler' = [loopHandler EXCEPT
                         ![l] = IF withHandler THEN UserH ELSE NoneH]
    /\ curLoop' = l
    /\ bornAfter' = IF EXC_HOOKS_INSTALLED THEN bornAfter \cup {l} ELSE bornAfter
    /\ lastEmit' = NoEmit
    /\ lastExc' = NoRun
    /\ UNCHANGED <<countVars, fmtVars, EXC_HOOKS_INSTALLED, ORIG_SYS_EXCEPTHOOK,
                   ORIG_THREADING_EXCEPTHOOK, ORIG_ASYNCIO_HANDLER,
                   sys_excepthook, threading_excepthook, nHooks, skipped,
                   threadVars, loggerVars>>

\* loop.close() on the current loop
CloseLoop ==
    /\ curLoop # 0
    /\ loopState[curLoop] = "open"
    /\ loopState' = [loopState EXCEPT ![curLoop] = "closed"]
    /\ lastEmit' = NoEmit
    /\ lastExc' = NoRun
    /\ UNCHANGED <<countVars, fmtVars, hookVars, curLoop, bornAfter, threadVars, loggerVars>>

\* ------------------------------------------------------------------------
\* Spec: the hooks under sequential installer calls
\* ------------------------------------------------------------------------
FreshChoices == {0} \cup FreshLoops

HookLogFiles == {NoPath, "A"}
HookLevels == {"INFO"}

Next ==
    \/ \E lf \in HookLogFiles, lv \in HookLevels, ex \in BOOLEAN,
          fresh \in FreshChoices, rootHas \in BOOLEAN :
            SetupLogger(lf, NoPath, lv, ex, fresh, rootHas)
    \/ \E fresh \in FreshChoices : InstallDirect(fresh)
    \/ \E exc \in Excs : SysException(exc)
    \/ \E exc \in Excs, th \in ThreadArgs : ThreadException(exc, th)
    \/ \E l \in Loops, hasExc \in BOOLEAN : LoopException(l, hasExc)
    \/ \E l \in FreshLoops, wh \in BOOLEAN : NewLoop(l, wh)
    \/ CloseLoop

Spec == Init /\ [][Next]_vars

\* ------------------------------------------------------------------------
\* SpecLog: setup_logger with every argument, and messages logged after it
\* ------------------------------------------------------------------------
LogFileArgs == {NoPath} \cup RawPaths
LevelArgs == {"DEBUG", "info", "INFO", "WARNING", "ERROR", "CRITICAL"}
LoggedLevels == {LevelNo("INFO"), LevelNo("ERROR")}

NextLog ==
    \/ \E lf \in LogFileArgs, ef \in LogFileArgs, lv \in LevelArgs,
          ex \in BOOLEAN, rootHas \in BOOLEAN :
            SetupLogger(lf, ef, lv, ex, 0, rootHas)
    \/ \E levelno \in LoggedLevels : Log(levelno)

SpecLog == Init /\ [][NextLog]_vars

\* ------------------------------------------------------------------------
\* SpecConc: threads inside _install_exception_logging at the same time; a
\* thread may be preempted between any two statements
\* ------------------------------------------------------------------------
Goto(t, label) == pc' = [pc EXCEPT ![t] = label]

Quiet == lastEmit' = NoEmit /\ lastExc' = NoRun

\* thread t calls _install_exception_logging(logger)
Call(t) ==
    /\ pc[t] = "idle"
    /\ loggerId # 0
    /\ Goto(t, "L125")
    /\ locals' = [locals EXCEPT ![t] = NoLocals]
    /\ installCalls' = Counted(installCalls)
    /\ Quiet
    /\ UNCHANGED <<setupCalls, fmtVars, hookVars, loopVars, loggerVars>>

\* line 125: if _EXC_HOOKS_INSTALLED: return
CheckInstalled(t) ==
    /\ pc[t] = "L125"
    /\ Goto(t, IF AlreadyInstalled THEN "done" ELSE "L138")
    /\ Quiet
    /\ UNCHANGED <<countVars, fmtVars, hookVars, loopVars, locals, loggerVars>>

\* lines 138-146: _ORIG_SYS_EXCEPTHOOK = sys.excepthook; def _sys_hook
SaveSys(t) ==
    /\ pc[t] = "L138"
    /\ ORIG_SYS_EXCEPTHOOK' = sys_excepthook
    /\ nHooks' = nHooks + 1
    /\ locals' = [locals EXCEPT ![t].hook = Wrapper(nHooks + 1)]
    /\ Goto(t, "L148")
    /\ Quiet
    /\ UNCHANGED <<countVars, fmtVars, EXC_HOOKS_INSTALLED, ORIG_THREADING_EXCEPTHOOK,
                   ORIG_ASYNCIO_HANDLER, sys_excepthook, threading_excepthook,
                   loopHandler, skipped, loopVars, loggerVars>>

\* line 148: sys.excepthook = _sys_hook
SetSys(t) ==
    /\ pc[t] = "L148"
    /\ sys_excepthook' = locals[t].hook
    /\ Goto(t, "L151")
    /\ Quiet
    /\ UNCHANGED <<countVars, fmtVars, EXC_HOOKS_INSTALLED, ORIG_SYS_EXCEPTHOOK,
                   ORIG_THREADING_EXCEPTHOOK, ORIG_ASYNCIO_HANDLER,
                   threading_excepthook, loopHandler, nHooks, skipped,
                   loopVars, locals, loggerVars>>

\* lines 151-164: _ORIG_THREADING_EXCEPTHOOK = getattr(threading, ...);
\* if it is not None: def _thread_hook
SaveThread(t) ==
    /\ pc[t] = "L151"
    /\ ORIG_THREADING_EXCEPTHOOK' = threading_excepthook
    /\ Goto(t, IF threading_excepthook # NoneH THEN "L166" ELSE "L169")
    /\ Quiet
    /\ UNCHANGED <<countVars, fmtVars, EXC_HOOKS_INSTALLED, ORIG_SYS_EXCEPTHOOK,
                   ORIG_ASYNCIO_HANDLER, sys_excepthook, threading_excepthook,
                   loopHandler, nHooks, skipped, loopVars, locals, loggerVars>>

\* line 166: threading.excepthook = _thread_hook
SetThread(t) ==
    /\ pc[t] = "L166"
    /\ threading_excepthook' = locals[t].hook
    /\ Goto(t, "L169")
    /\ Quiet
    /\ UNCHANGED <<countVars, fmtVars, EXC_HOOKS_INSTALLED, ORIG_SYS_EXCEPTHOOK,
                   ORIG_THREADING_EXCEPTHOOK, ORIG_ASYNCIO_HANDLER,
                   sys_excepthook, loopHandler, nHooks, skipped, loopVars,
                   locals, loggerVars>>

\* line 169: _ORIG_ASYNCIO_HANDLER = None
ResetAsyncio(t) ==
    /\ pc[t] = "L169"
    /\ ORIG_ASYNCIO_HANDLER' = NoneH
    /\ Goto(t, "L171")
    /\ Quiet
    /\ UNCHANGED <<countVars, fmtVars, EXC_HOOKS_INSTALLED, ORIG_SYS_EXCEPTHOOK,
                   ORIG_THREADING_EXCEPTHOOK, sys_excepthook,
                   threading_excepthook, loopHandler, nHooks, skipped,
                   loopVars, locals, loggerVars>>

\* lines 171-190: loop = asyncio.get_event_loop(); if it is usable,
\* _ORIG_ASYNCIO_HANDLER = loop.get_exception_handler(); def _asyncio_handler;
\* a RuntimeError is swallowed by the except clause
GetLoop(t, fresh) ==
    LET loop == get_event_loop(fresh)
        usable == loop # 0 /\ loopState[loop] # "closed"
    IN  /\ pc[t] = "L171"
        /\ loopState' = IF loop # 0 /\ curLoop = 0
                        THEN [loopState EXCEPT ![loop] = "open"]
                        ELSE loopState
        /\ curLoop' = loop
        /\ ORIG_ASYNCIO_HANDLER' =
               IF usable THEN loopHandler[loop] ELSE ORIG_ASYNCIO_HANDLER
        /\ locals' = [locals EXCEPT ![t].loop = loop, ![t].hooked = usable]
        /\ Goto(t, IF usable THEN "L192" ELSE "L197")
        /\ Quiet
        /\ UNCHANGED <<countVars, fmtVars, EXC_HOOKS_INSTALLED, ORIG_SYS_EXCEPTHOOK,
                       ORIG_THREADING_EXCEPTHOOK, sys_excepthook,
                       threading_excepthook, loopHandler, nHooks, skipped,
                       bornAfter, loggerVars>>

\* line 192: loop.set_exception_handler(_asyncio_handler)
SetAsyncio(t) ==
    /\ pc[t] = "L192"
    /\ loopHandler' = [loopHandler EXCEPT ![locals[t].loop] = locals[t].hook]
    /\ Goto(t, "L197")
    /\ Quiet
    /\ UNCHANGED <<countVars, fmtVars, EXC_HOOKS_INSTALLED, ORIG_SYS_EXCEPTHOOK,
                   ORIG_THREADING_EXCEPTHOOK, ORIG_ASYNCIO_HANDLER,
                   sys_excepthook, threading_excepthook, nHooks, skipped,
                   loopVars, locals, loggerVars>>

\* line 197: _EXC_HOOKS_INSTALLED = True
SetFlag(t) ==
    /\ pc[t] = "L197"
    /\ EXC_HOOKS_INSTALLED' = FlagAfterInstall(locals[t].hooked)
    /\ skipped' = ~locals[t].hooked
    /\ Goto(t, "done")
    /\ Quiet
    /\ UNCHANGED <<countVars, fmtVars, ORIG_SYS_EXCEPTHOOK, ORIG_THREADING_EXCEPTHOOK,
                   ORIG_ASYNCIO_HANDLER, sys_excepthook, threading_excepthook,
                   loopHandler, nHooks, loopVars, locals, loggerVars>>

InstallStep(t) ==
    \/ Call(t)
    \/ CheckInstalled(t)
    \/ SaveSys(t)
    \/ SetSys(t)
    \/ SaveThread(t)
    \/ SetThread(t)
    \/ ResetAsyncio(t)
    \/ \E fresh \in FreshChoices : GetLoop(t, fresh)
    \/ SetAsyncio(t)
    \/ SetFlag(t)

ConcExcs == {e \in Excs : e.exc_value = "e1"}

NextConc ==
    \/ SetupLogger(NoPath, NoPath, "INFO", FALSE, 0, FALSE)
    \/ \E t \in Threads : InstallStep(t)
    \/ \E exc \in ConcExcs : SysException(exc)
    \/ \E exc \in ConcExcs : ThreadException(exc, "Thread-1")

SpecConc == Init /\ [][NextConc]_vars

AllDone == \A t \in Threads : pc[t] = "done"

\* ------------------------------------------------------------------------
\* SpecFmt: format applied to every record of the input sets
\* ------------------------------------------------------------------------
InitFmt ==
    /\ record \in Records
    /\ formatter \in Formatters
    /\ out = <<>>
    /\ fmtDone = FALSE
    /\ InitProcess

Format ==
    /\ ~fmtDone
    /\ out' = format(formatter, record)
    /\ fmtDone' = TRUE
    /\ UNCHANGED <<countVars, record, formatter, hookVars, loopVars, threadVars,
                   loggerVars, obsVars>>

NextFmt == Format

SpecFmt == InitFmt /\ [][NextFmt]_vars

\* ------------------------------------------------------------------------
\* Reading the output back
\* ------------------------------------------------------------------------
\* number of line breaks in a message: the boundaries str.splitlines
\* recognises ("\r\n" is one line break)
CountBreaks(s) ==
    Cardinality({i \in 1..Len(s) : s[i] \in Breaks})
      - Cardinality({i \in 1..(Len(s) - 1) : s[i] = CR /\ s[i + 1] = LF})

EndsWithBreak(s) == Len(s) > 0 /\ s[Len(s)] \in Breaks

EndsWith(s, suffix) ==
    /\ Len(s) >= Len(suffix)
    /\ SubSeq(s, Len(s) - Len(suffix) + 1, Len(s)) = suffix

\* offset (0-based) at which the source location starts on the first line
SrcOffset == Len(PhysicalLines(out)[1]) - Len(SrcOf(record))

\* ------------------------------------------------------------------------
\* Properties of the hooks (Spec, SpecConc)
\* ------------------------------------------------------------------------
IsInterrupt(exc) == exc.exc_type \in {"KeyboardInterrupt", "SubInterrupt"}

SysEntry == [text |-> "Uncaught exception", thread |-> "none"]

\* each channel holds one closure of this module over the handler that was
\* there before, and a delivered non-interrupt exception went through it once
OneLayerPerChannel ==
    /\ IsWrapper(sys_excepthook) /\ ORIG_SYS_EXCEPTHOOK = OrigH
    /\ IsWrapper(threading_excepthook) /\ ORIG_THREADING_EXCEPTHOOK = OrigH
    /\ (lastExc.chan = "sys" /\ ~IsInterrupt(lastExc.exc))
         => /\ lastExc.entries = <<SysEntry>>
            /\ lastExc.origArgs = <<lastExc.exc>>
            /\ lastExc.failed = "no"

C1_Step ==
    /\ EXC_HOOKS_INSTALLED' => OneLayerPerChannel'
    /\ EXC_HOOKS_INSTALLED =>
         UNCHANGED <<sys_excepthook, threading_excepthook, ORIG_SYS_EXCEPTHOOK,
                     ORIG_THREADING_EXCEPTHOOK, ORIG_ASYNCIO_HANDLER>>

\* C1: after one or more sequential installer calls (direct or through
\* setup_logger) sys.excepthook and threading.excepthook each hold exactly one
\* wrapper over the handler in place before the first call: a non-interrupt
\* exception delivered to sys.excepthook hands exactly one entry to
\* logger.error and invokes the original handler exactly once, and once the
\* hooks are installed no later step (a further installer call included)
\* changes the hook slots or the saved original-handler references.
C1_OneWrappingLayer == [][C1_Step]_vars

\* the installer was called several times, then an exception was delivered
C1_Witness ==
    /\ installCalls = 2
    /\ EXC_HOOKS_INSTALLED
    /\ lastExc.chan = "sys"
    /\ lastExc.exc.exc_type = "ValueError"
    /\ lastExc.entries = <<SysEntry>>
    /\ lastExc.origArgs = <<lastExc.exc>>

\* C2 (as claimed): whatever the interleaving of threads calling the
\* installer while _EXC_HOOKS_INSTALLED is False, once all calls have
\* returned the saved original handlers are not wrappers of this module and
\* one uncaught exception is logged exactly once.
C2_ConcurrentInstallOneLayer ==
    AllDone =>
        /\ ORIG_SYS_EXCEPTHOOK = OrigH
        /\ ORIG_THREADING_EXCEPTHOOK = OrigH
        /\ RunSys(sys_excepthook,
                  [exc_type |-> "ValueError", exc_value |-> "e1"],
                  MaxDepth).entries = <<SysEntry>>

\* C3: the installed _sys_hook called with KeyboardInterrupt or a subclass
\* hands nothing to the logger and calls the previously installed
\* sys.excepthook exactly once with the same (type, value, traceback).
C3_InterruptNotLogged ==
    (lastExc.chan = "sys" /\ IsWrapper(sys_excepthook) /\ IsInterrupt(lastExc.exc))
        => /\ lastExc.entries = <<>>
           /\ lastEmit = NoEmit
           /\ lastExc.origArgs = <<lastExc.exc>>
           /\ lastExc.failed = "no"

C3_Witness ==
    /\ lastExc.chan = "sys"
    /\ IsWrapper(sys_excepthook)
    /\ lastExc.exc.exc_type = "SubInterrupt"
    /\ lastExc.entries = <<>>
    /\ lastExc.origArgs = <<lastExc.exc>>

\* C4 (as claimed): the installed _thread_hook, for an interrupt, logs nothing
\* and delegates to the previously installed threading.excepthook; for any
\* other exception it logs one ERROR entry with the thread name and then
\* delegates to the previously installed threading.excepthook, never
\* re-entering itself.
C4_ThreadHookContract ==
    (lastExc.chan = "threading" /\ IsWrapper(threading_excepthook))
        => /\ lastExc.origArgs = << <<lastExc.exc, lastExc.thread>> >>
           /\ lastExc.failed = "no"
           /\ lastExc.entries =
                IF IsInterrupt(lastExc.exc) THEN <<>>
                ELSE << [text |-> "Uncaught thread exception",
                         thread |-> IF lastExc.thread = "NoThread"
                                    THEN "unknown" ELSE lastExc.thread] >>

\* C10: when no usable event loop is there at the installing call, the loop
\* channel is skipped, the other two channels are installed and the flag is
\* set; from then on no loop has its exception handler replaced by this
\* module, and in any case a loop created after the installation never has.
C10_LaterLoopsNeverHooked ==
    /\ skipped =>
         /\ EXC_HOOKS_INSTALLED
         /\ IsWrapper(sys_excepthook)
         /\ IsWrapper(threading_excepthook)
         /\ \A l \in Loops : ~IsWrapper(loopHandler[l])
    /\ \A l \in bornAfter : ~IsWrapper(loopHandler[l])

\* the loop channel was skipped, a loop was started afterwards and the
\* installer was called again with that loop open
C10_Witness ==
    /\ skipped
    /\ installCalls = 2
    /\ lastExc = NoRun
    /\ curLoop \in bornAfter
    /\ loopState[curLoop] = "open"
    /\ ~IsWrapper(loopHandler[curLoop])

\* ------------------------------------------------------------------------
\* Properties of AlignedFileFormatter.format (SpecFmt)
\* ------------------------------------------------------------------------
\* C5 (as claimed): the source location on the first physical line starts at
\* an offset >= source_col, and when the text before it already reaches that
\* column exactly one space separates it from the message.
C5_SourceStartsAtColumn ==
    fmtDone =>
        /\ EndsWith(PhysicalLines(out)[1], SrcOf(record))
        /\ SrcOffset >= formatter.source_col
        /\ Len(LeftFirst(formatter, record)) >= formatter.source_col
             => SrcOffset = Len(LeftFirst(formatter, record)) + 1

\* lines 2.. of the output are message_col spaces followed by the text of
\* the corresponding message line, and do not end in the source location
ContinuationShape ==
    LET lines == PhysicalLines(out)
        texts == splitlines(record.msg)
    IN  \A i \in 2..Len(lines) :
            /\ lines[i] = Spaces(formatter.message_col) \o texts[i]
            /\ ~EndsWith(lines[i], SrcOf(record))

Given(p) == p # NoPath
CountKind(k) == Cardinality({i \in DOMAIN handlers : handlers[i].kind = k})
HandlersFor(path) ==
    Cardinality({i \in DOMAIN handlers : handlers[i].sink = path})
WritesTo(path) ==
    Cardinality({i \in DOMAIN lastEmit.sinks : lastEmit.sinks[i] = path})
Threshold == LevelNo(Upper(lastSetup.level))
SamePath(p, q) ==
    \/ p = q
    \/ {p, q} = {"A", "./A"}

\* C7: after any sequence of setup_logger calls the logger's handlers are
\* those of the most recent call: one console handler, one general file
\* handler iff log_file was given, one ERROR-only file handler iff
\* error_log_file was given and is another file than log_file, nothing else;
\* every call returned the same logger object and propagate is False.
C7_HandlersOfLastCall ==
    loggerId # 0 =>
        LET lf == lastSetup.log_file
            ef == lastSetup.error_log_file
            wantFile == IF Given(lf) THEN 1 ELSE 0
            wantErr == IF Given(ef) /\ (~Given(lf) \/ ~SamePath(lf, ef))
                       THEN 1 ELSE 0
        IN  /\ CountKind("console") = 1
            /\ CountKind("file") = wantFile
            /\ CountKind("error_file") = wantErr
            /\ Len(handlers) = 1 + wantFile + wantErr
            /\ \A i \in DOMAIN handlers :
                  /\ handlers[i].kind = "file" => SamePath(handlers[i].sink, lf)
                  /\ handlers[i].kind = "error_file"
                       => /\ SamePath(handlers[i].sink, ef)
                          /\ handlers[i].level = 40
            /\ Cardinality(returnedIds) = 1
            /\ propagate = FALSE

\* a later call, with both files, after an earlier one
C7_Witness ==
    /\ setupCalls = 2
    /\ Len(handlers) = 3
    /\ lastSetup.log_file = "./A"
    /\ lastSetup.error_log_file = "B"

SamePathSetup ==
    /\ loggerId # 0
    /\ Given(lastSetup.log_file)
    /\ Given(lastSetup.error_log_file)
    /\ SamePath(lastSetup.log_file, lastSetup.error_log_file)

\* the file both arguments name
PathA == IF lastSetup.log_file = "./A" THEN "A" ELSE lastSetup.log_file

\* C8 (as claimed): log_file and error_log_file resolving to the same path A:
\* one file handler for A, and an ERROR message logged afterwards is written
\* to A exactly once.
C8_SamePathWrittenOnce ==
    SamePathSetup =>
        /\ HandlersFor(PathA) = 1
        /\ lastEmit.levelno = 40 => WritesTo(PathA) = 1

\* C8 (amended): ... one file handler for A; an ERROR message logged
\* afterwards is written to A exactly once when the level given to
\* setup_logger is ERROR or lower, and not at all when it is CRITICAL.
C8_SamePathWrittenOnceIfEnabled ==
    SamePathSetup =>
        /\ HandlersFor(PathA) = 1
        /\ lastEmit.levelno = 40 =>
              WritesTo(PathA) = IF Threshold <= 40 THEN 1 ELSE 0

\* the two arguments spell the same file differently
C8_Witness ==
    /\ SamePathSetup
    /\ lastSetup.log_file # lastSetup.error_log_file
    /\ lastEmit.levelno = 40
    /\ WritesTo(PathA) = 1

ErrorFileOnlySetup ==
    /\ loggerId # 0
    /\ ~Given(lastSetup.log_file)
    /\ lastSetup.error_log_file = "B"

\* C9 (as claimed): log_file=None, error_log_file=B: an INFO message logged
\* afterwards reaches the console handler only, an ERROR message reaches the
\* console handler and file B.
C9_ErrorFileOnly ==
    ErrorFileOnlySetup =>
        /\ lastEmit.levelno = 20 => lastEmit.sinks = <<"stdout">>
        /\ lastEmit.levelno = 40 => lastEmit.sinks = <<"stdout", "B">>

\* C9 (amended): log_file=None, error_log_file=B: an INFO message is never
\* written to B and reaches the console handler exactly when the level given
\* to setup_logger is INFO or lower; an ERROR message reaches the console
\* handler and file B exactly when that level is ERROR or lower; a message
\* below the level reaches no handler.
C9_ErrorFileOnlyIfEnabled ==
    ErrorFileOnlySetup =>
        /\ lastEmit.levelno = 20 =>
              lastEmit.sinks = IF Threshold <= 20 THEN <<"stdout">> ELSE <<>>
        /\ lastEmit.levelno = 40 =>
              lastEmit.sinks = IF Threshold <= 40 THEN <<"stdout", "B">>
                               ELSE <<>>

C9_Witness ==
    /\ ErrorFileOnlySetup
    /\ lastEmit.levelno = 40
    /\ lastEmit.sinks = <<"stdout", "B">>
    /\ Threshold = 20

====
